---- MODULE Spec2Model ----
(***************************************************************************)
(* Ava, the meeting-audio-to-minutes assistant: a model of the pipeline    *)
(* (pipeline/transcribe.py, pipeline/summarize.py,                         *)
(* pipeline/extract_actions.py) and of the Generate Minutes handler of     *)
(* app.py.                                                                 *)
(*                                                                         *)
(* Text.  A Python str is modelled as a record [s, pad]: the characters of *)
(* s (a sequence of one-character strings) followed by pad copies of the   *)
(* letter Filler.  No literal of the model contains Filler, so the         *)
(* representation is canonical and 1000-character strings are cheap.       *)
(*                                                                         *)
(* Python values are tagged records: [t |-> "none"], [t |-> "num", n],     *)
(* [t |-> "str", s], [t |-> "repr", of] (the string str(v) of a dict or    *)
(* list v), [t |-> "list", l] and [t |-> "dict", d] with d a function from *)
(* key names to values.                                                    *)
(***************************************************************************)
EXTENDS Naturals, Sequences, FiniteSets, TLC

----------------------------------------------------------------------------
(* Characters and strings *)

Filler == "x"

NoChar == ""

UpperSeq ==
    <<"A","B","C","D","E","F","G","H","I","J","K","L","M",
      "N","O","P","Q","R","S","T","U","V","W","X","Y","Z">>

LowerSeq ==
    <<"a","b","c","d","e","f","g","h","i","j","k","l","m",
      "n","o","p","q","r","s","t","u","v","w","x","y","z">>

Upper == {UpperSeq[i] : i \in 1..Len(UpperSeq)}

Lower == {LowerSeq[i] : i \in 1..Len(LowerSeq)}

Digit == {"0","1","2","3","4","5","6","7","8","9"}

Letter == Upper \cup Lower

WordChars == Letter \cup Digit \cup {"_"}

Whitespace == {" ", "\n", "\t"}

SentenceEnd == {".", "!", "?"}

ToLowerMap == [c \in Upper |-> LowerSeq[CHOOSE i \in 1..Len(UpperSeq) : UpperSeq[i] = c]]

LowerChar(c) == IF c \in Upper THEN ToLowerMap[c] ELSE c

Min(a, b) == IF a <= b THEN a ELSE b

Max(a, b) == IF a >= b THEN a ELSE b

Txt(chars) == [s |-> chars, pad |-> 0]

EmptyStr == Txt(<<>>)

PLen(p) == Len(p.s) + p.pad

CharAt(p, i) ==
    IF i >= 1 /\ i <= Len(p.s) THEN p.s[i]
    ELSE IF i > Len(p.s) /\ i <= PLen(p) THEN Filler
    ELSE NoChar

\* p[a-1 : b] in Python terms: the characters a..b, 1-based and inclusive.
Slice(p, a, b) ==
    LET n == Len(p.s)
    IN  [s   |-> IF a <= Min(b, n) THEN SubSeq(p.s, a, Min(b, n)) ELSE <<>>,
         pad |-> IF b >= Max(a, n + 1) THEN b - Max(a, n + 1) + 1 ELSE 0]

Concat(p, q) ==
    IF p.pad = 0 THEN [s |-> p.s \o q.s, pad |-> q.pad]
    ELSE [s |-> p.s, pad |-> p.pad + q.pad]   \* only used with q made of Filler

\* str.lower()
LowerStr(p) == [s |-> [i \in 1..Len(p.s) |-> LowerChar(p.s[i])], pad |-> p.pad]

\* the greatest e >= from-1 such that the characters from..e all lie in class
RECURSIVE RunEndIn(_, _, _)
RunEndIn(chars, from, class) ==
    IF from <= Len(chars) /\ chars[from] \in class
    THEN RunEndIn(chars, from + 1, class)
    ELSE from - 1

RunEnd(p, from, class) ==
    LET e == RunEndIn(p.s, from, class)
    IN  IF from > Len(p.s)
        THEN IF from <= PLen(p) /\ Filler \in class THEN PLen(p) ELSE from - 1
        ELSE IF e = Len(p.s) /\ p.pad > 0 /\ Filler \in class THEN PLen(p) ELSE e

\* the least i >= from with chars[i] outside class, or Len(chars)+1
FirstOutside(chars, from, class) == RunEndIn(chars, from, class) + 1

RECURSIVE LastOutside(_, _)
LastOutside(chars, class) ==
    IF chars # <<>> /\ chars[Len(chars)] \in class
    THEN LastOutside(SubSeq(chars, 1, Len(chars) - 1), class)
    ELSE Len(chars)

\* str.strip()
Strip(p) ==
    LET a == FirstOutside(p.s, 1, Whitespace)
        b == IF p.pad > 0 THEN Len(p.s) ELSE LastOutside(p.s, Whitespace)
    IN  [s |-> IF a <= b THEN SubSeq(p.s, a, b) ELSE <<>>, pad |-> p.pad]

\* str.replace(old, new) for single characters
ReplaceChar(p, old, new) ==
    [s |-> [i \in 1..Len(p.s) |-> IF p.s[i] = old THEN new ELSE p.s[i]], pad |-> p.pad]

\* does chars hold w at position i (1-based)?
HasAt(chars, i, w) ==
    /\ i >= 1
    /\ i + Len(w) - 1 <= Len(chars)
    /\ \A j \in 1..Len(w) : chars[i + j - 1] = w[j]

\* w in p, for a w without Filler
Contains(p, w) == \E i \in 1..(Len(p.s) - Len(w) + 1) : HasAt(p.s, i, w)

\* regex \b between the characters i and i+1
Boundary(p, i) == (CharAt(p, i) \in WordChars) # (CharAt(p, i + 1) \in WordChars)

----------------------------------------------------------------------------
(* Python values *)

None == [t |-> "none"]

Num(n) == [t |-> "num", n |-> n]

Str(p) == [t |-> "str", s |-> p]

Repr(v) == [t |-> "repr", of |-> v]

List(l) == [t |-> "list", l |-> l]

Dict(d) == [t |-> "dict", d |-> d]

\* bool(v)
Truthy(v) ==
    CASE v.t = "none" -> FALSE
      [] v.t = "num"  -> v.n # 0
      [] v.t = "str"  -> PLen(v.s) > 0
      [] v.t = "repr" -> TRUE
      [] v.t = "list" -> Len(v.l) > 0
      [] v.t = "dict" -> DOMAIN v.d # {}

\* a or b
Or(a, b) == IF Truthy(a) THEN a ELSE b

\* dict.get(k)
Get(v, k) == IF k \in DOMAIN v.d THEN v.d[k] ELSE None

NumChars(n) ==
    LET D == <<"0","1","2","3","4","5","6","7","8","9">>
    IN  IF n < 10 THEN <<D[n + 1]>> ELSE <<D[(n \div 10) + 1], D[(n % 10) + 1]>>

\* str(v): a str is itself, a number its digits, None the word None, a dict or
\* a list its repr
PyStr(v) ==
    CASE v.t = "str"  -> v
      [] v.t = "repr" -> v
      [] v.t = "num"  -> Str(Txt(NumChars(v.n)))
      [] v.t = "none" -> Str(Txt(<<"N","o","n","e">>))
      [] OTHER        -> Repr(v)

\* repr(v) has this many characters (a newline or tab in a str is written as two)
RECURSIVE ReprLen(_)
RECURSIVE SumReprLen(_, _)
RECURSIVE SumItemLen(_, _)
PyLen(v) ==
    CASE v.t = "str"  -> PLen(v.s)
      [] v.t = "repr" -> ReprLen(v.of)
      [] OTHER        -> 0

ReprLen(v) ==
    CASE v.t = "none" -> 4
      [] v.t = "num"  -> Len(NumChars(v.n))
      [] v.t = "str"  -> PLen(v.s) + 2 + Cardinality({i \in 1..Len(v.s.s) : v.s.s[i] \in {"\n", "\t"}})
      [] v.t = "repr" -> ReprLen(v.of) + 2
      [] v.t = "list" -> 2 + SumReprLen(v.l, 1)
      [] v.t = "dict" -> 2 + SumItemLen(v.d, DOMAIN v.d)

SumReprLen(l, i) ==
    IF i > Len(l) THEN 0
    ELSE ReprLen(l[i]) + (IF i < Len(l) THEN 2 ELSE 0) + SumReprLen(l, i + 1)

\* 'key': value, one per key; key names of the model have KeyLen characters
KeyLen(k) ==
    CASE k = "id" -> 2
      [] k = "action" -> 6
      [] k = "action_text" -> 11
      [] k = "task" -> 4
      [] k = "owner" -> 5
      [] k = "deadline" -> 8
      [] k = "context" -> 7
      [] k = "sentence" -> 8
      [] k = "items" -> 5
      [] OTHER -> 4

SumItemLen(d, keys) ==
    IF keys = {} THEN 0
    ELSE LET k == CHOOSE k \in keys : TRUE
         IN  KeyLen(k) + 4 + ReprLen(d[k]) + (IF keys \ {k} # {} THEN 2 ELSE 0)
             + SumItemLen(d, keys \ {k})

----------------------------------------------------------------------------
(* pipeline/extract_actions.py *)

ACTION_KEYWORDS ==
    <<<<"a","c","t","i","o","n">>, <<"t","o","d","o">>, <<"t","o"," ","d","o">>,
      <<"w","i","l","l">>, <<"s","h","o","u","l","d">>, <<"p","l","e","a","s","e">>,
      <<"a","s","s","i","g","n">>, <<"d","e","a","d","l","i","n","e">>, <<"b","y">>,
      <<"d","u","e">>, <<"f","o","l","l","o","w"," ","u","p">>, <<"f","o","l","l","o","w","-","u","p">>>>

\* the alternatives of verb_start_pattern that must be followed by \b
ImperativeVerbs ==
    <<<<"A","d","d">>, <<"A","s","s","i","g","n">>, <<"F","o","l","l","o","w">>,
      <<"F","o","l","l","o","w"," ","u","p">>, <<"F","o","l","l","o","w","-","u","p">>, <<"C","a","l","l">>,
      <<"E","m","a","i","l">>, <<"S","c","h","e","d","u","l","e">>, <<"C","r","e","a","t","e">>,
      <<"P","r","e","p","a","r","e">>, <<"S","e","n","d">>, <<"C","o","m","p","l","e","t","e">>,
      <<"F","i","n","i","s","h">>, <<"I","n","v","e","s","t","i","g","a","t","e">>, <<"C","o","n","f","i","r","m">>,
      <<"B","o","o","k">>, <<"P","l","a","n">>, <<"S","h","a","r","e">>,
      <<"P","r","o","v","i","d","e">>, <<"D","i","s","c","u","s","s">>, <<"S","e","t","u","p">>,
      <<"S","e","t"," ","u","p">>, <<"M","a","k","e">>, <<"O","r","g","a","n","i","z","e">>,
      <<"A","r","r","a","n","g","e">>>>

PleaseSpace == <<"p","l","e","a","s","e"," ">>

MonthAbbrevs ==
    <<<<"j","a","n">>, <<"f","e","b">>, <<"m","a","r">>, <<"a","p","r">>, <<"m","a","y">>, <<"j","u","n">>,
      <<"j","u","l">>, <<"a","u","g">>, <<"s","e","p">>, <<"o","c","t">>, <<"n","o","v">>, <<"d","e","c">>>>

\* re.split(r'(?<=[.!?]) +', s): cut at every run of spaces that directly
\* follows a '.', '!' or '?'
RECURSIVE SplitFrom(_, _, _)
SplitFrom(chars, start, i) ==
    IF i > Len(chars) THEN <<SubSeq(chars, start, Len(chars))>>
    ELSE IF chars[i] = " " /\ i > 1 /\ chars[i - 1] \in SentenceEnd
         THEN LET j == RunEndIn(chars, i, {" "})
              IN  <<SubSeq(chars, start, i - 1)>> \o SplitFrom(chars, j + 1, j + 1)
         ELSE SplitFrom(chars, start, i + 1)

SplitSentences(p) ==
    LET parts == SplitFrom(p.s, 1, 1)
    IN  [k \in 1..Len(parts) |->
            [s |-> parts[k], pad |-> IF k = Len(parts) THEN p.pad ELSE 0]]

\* any(k in lowered for k in ACTION_KEYWORDS)
HasKeyword(lowered) == \E k \in 1..Len(ACTION_KEYWORDS) : Contains(lowered, ACTION_KEYWORDS[k])

\* verb_start_pattern.search(text): anchored at the start, re.IGNORECASE
VerbStart(text) ==
    LET low == LowerStr(text)
    IN  \/ HasAt(low.s, 1, PleaseSpace)
        \/ \E k \in 1..Len(ImperativeVerbs) :
              LET w == LowerStr(Txt(ImperativeVerbs[k])).s
              IN  HasAt(low.s, 1, w) /\ Boundary(text, Len(w))

\* [\w\s\-\']
ByNameClass == WordChars \cup Whitespace \cup {"-", "'"}

\* the greatest e in lo..hi with a \b after character e, or 0
RECURSIVE LastBoundary(_, _, _)
LastBoundary(p, lo, hi) ==
    IF hi < lo THEN 0
    ELSE IF Boundary(p, hi) THEN hi
    ELSE LastBoundary(p, lo, hi - 1)

\* [A-Z][\w\s\-\']+ at q, then \b: the end of the match, or 0
ByAltName(p, q) ==
    IF CharAt(p, q) \in Upper
    THEN LastBoundary(p, q + 1, RunEnd(p, q + 1, ByNameClass))
    ELSE 0

Ordinals == {<<"s","t">>, <<"n","d">>, <<"r","d">>, <<"t","h">>}

\* " [A-Za-z]+" after character e, then \b: the end of the match, or 0
SpaceWordEnd(p, e) ==
    IF CharAt(p, e + 1) = " " /\ CharAt(p, e + 2) \in Letter
    THEN (LET r == RunEnd(p, e + 2, Letter) IN IF Boundary(p, r) THEN r ELSE 0)
    ELSE 0

FirstNonZero(a, b) == IF a # 0 THEN a ELSE b

\* (?:st|nd|rd|th)? [A-Za-z]+ after the last digit d, then \b
AfterDay(p, d) ==
    FirstNonZero(IF \E o \in Ordinals : HasAt(p.s, d + 1, o) THEN SpaceWordEnd(p, d + 2) ELSE 0,
                 SpaceWordEnd(p, d))

\* \d{1,2}(?:st|nd|rd|th)? [A-Za-z]+ at q, then \b: the end of the match, or 0
ByAltDayMonth(p, q) ==
    FirstNonZero(IF CharAt(p, q) \in Digit /\ CharAt(p, q + 1) \in Digit THEN AfterDay(p, q + 1) ELSE 0,
                 IF CharAt(p, q) \in Digit THEN AfterDay(p, q) ELSE 0)

\* \d{4} at q, then \b
ByAltYear(p, q) ==
    IF (\A i \in q..(q + 3) : CharAt(p, i) \in Digit) /\ Boundary(p, q + 3) THEN q + 3 ELSE 0

\* \w+ at q, then \b
ByAltWord(p, q) == IF CharAt(p, q) \in WordChars THEN RunEnd(p, q, WordChars) ELSE 0

\* \bby (...)\b tried at position i: the end of group 1, which starts at
\* i + 3, or 0
ByGroupAt(p, i) ==
    IF Boundary(p, i - 1) /\ HasAt(p.s, i, <<"b","y"," ">>)
    THEN FirstNonZero(ByAltName(p, i + 3),
           FirstNonZero(ByAltDayMonth(p, i + 3),
             FirstNonZero(ByAltYear(p, i + 3), ByAltWord(p, i + 3))))
    ELSE 0

\* the least member of a non-empty set of numbers
Least(S) == CHOOSE i \in S : \A j \in S : i <= j

\* group 1 of the leftmost match, given the end of group 1 at every position
GroupOf(text, ends, offset) ==
    IF \A i \in DOMAIN ends : ends[i] = 0 THEN None
    ELSE LET i == Least({j \in DOMAIN ends : ends[j] # 0})
         IN  Str(Slice(text, i + offset, ends[i]))

\* re.search(r'\bby (...)\b', text).group(1), or None when there is no match
SearchBy(text) == GroupOf(text, [i \in 1..Len(text.s) |-> ByGroupAt(text, i)], 3)

\* [A-Z][a-z]+ at i: the end of the word, or 0.  A word that runs into the
\* Filler reaches the end of the text and is followed by nothing.
CapWordEnd(p, i) ==
    IF CharAt(p, i) \in Upper /\ CharAt(p, i + 1) \in Lower
    THEN LET e == RunEndIn(p.s, i + 1, Lower)
         IN  IF e = Len(p.s) /\ p.pad > 0 THEN 0 ELSE e
    ELSE 0

\* the ends of [A-Z][a-z]+(?: [A-Z][a-z]+)* started at i, shortest first
RECURSIVE NameEnds(_, _)
NameEndsFrom(p, e) ==
    IF e = 0 THEN <<>>
    ELSE IF CharAt(p, e + 1) = " " THEN <<e>> \o NameEnds(p, e + 2)
    ELSE <<e>>

NameEnds(p, i) == NameEndsFrom(p, CapWordEnd(p, i))

\* the last of the ends that " will" and a \b follow, or 0
LastWithWill(p, ends) ==
    LET ok == {k \in 1..Len(ends) :
                  /\ HasAt(p.s, ends[k] + 1, <<" ","w","i","l","l">>)
                  /\ Boundary(p, ends[k] + 5)}
    IN  IF ok = {} THEN 0 ELSE ends[CHOOSE k \in ok : \A j \in ok : j <= k]

\* ([A-Z][a-z]+(?: [A-Z][a-z]+)*) will\b tried at position i: the end of group 1, or 0
OwnerGroupAt(p, i) == LastWithWill(p, NameEnds(p, i))

\* re.search(r'([A-Z][a-z]+(?: [A-Z][a-z]+)*) will\b', text).group(1), or None
SearchOwner(text) == GroupOf(text, [i \in 1..Len(text.s) |-> OwnerGroupAt(text, i)], 0)

\* the candidate names a month or holds four digits in a row
LooksLikeDate(cand) ==
    \/ \E k \in 1..Len(MonthAbbrevs) : Contains(LowerStr(cand), MonthAbbrevs[k])
    \/ \E i \in 1..Len(cand.s) : \A j \in i..(i + 3) : CharAt(cand, j) \in Digit

\* the historical cap on an action's length
ActionCap == 1000

\* text if len(text) < 1000 else text[:1000]
CapAction(text) == IF PLen(text) < ActionCap THEN text ELSE Slice(text, 1, ActionCap)

\* owner and deadline of one sentence, from the two matches
OwnerAndDeadline(m_by, m_owner) ==
    LET candidate == IF m_by = None THEN EmptyStr ELSE Strip(m_by.s)
        isDate    == m_by # None /\ LooksLikeDate(candidate)
    IN  [owner    |-> IF m_owner # None THEN m_owner
                      ELSE IF m_by # None /\ ~isDate THEN Str(candidate) ELSE None,
         deadline |-> IF isDate THEN Str(candidate) ELSE None]

ItemOf(text, id_counter, od) ==
    Dict([id       |-> Num(id_counter),
          action   |-> Str(CapAction(text)),
          owner    |-> IF Truthy(od.owner) THEN od.owner ELSE None,
          deadline |-> IF Truthy(od.deadline) THEN od.deadline ELSE None,
          context  |-> Str(text)])

\* the dict appended for one qualifying sentence
FallbackItem(text, id_counter) ==
    ItemOf(text, id_counter, OwnerAndDeadline(SearchBy(text), SearchOwner(text)))

\* Qualifies, but the imperative pattern is not consulted
QualifiesByKeywordOnly(text) == HasKeyword(LowerStr(text))

\* the test of the loop body on one stripped sentence
Qualifies(text) == HasKeyword(LowerStr(text)) \/ VerbStart(text)

\* the loop over the sentences, from sentence i on
RECURSIVE FallbackLoop(_, _, _)
LoopBody(sentences, i, id_counter, text) ==
    IF PLen(text) = 0 THEN FallbackLoop(sentences, i + 1, id_counter)
    ELSE IF Qualifies(text)
         THEN <<FallbackItem(text, id_counter)>>
                \o FallbackLoop(sentences, i + 1, id_counter + 1)
         ELSE FallbackLoop(sentences, i + 1, id_counter)

FallbackLoop(sentences, i, id_counter) ==
    IF i > Len(sentences) THEN <<>>
    ELSE LoopBody(sentences, i, id_counter, Strip(sentences[i]))

_regex_fallback(transcript) ==
    FallbackLoop(SplitSentences(ReplaceChar(transcript, "\n", " ")), 1, 1)

(* The text a generative backend returns, as JSON tokens.  "{" stands for
   the opening of an object with the single key "items", {"items": , and
   "prose" for any text that is not JSON; an atom is a complete scalar or
   object that holds no bracket. *)
LB == [k |-> "["]

RB == [k |-> "]"]

COMMA == [k |-> ","]

LC == [k |-> "{"]

RC == [k |-> "}"]

PROSE == [k |-> "prose"]

Atom(v) == [k |-> "atom", v |-> v]

ParseFail == [ok |-> FALSE, v |-> None, next |-> 0]

\* json.loads, one value starting at token i
RECURSIVE ParseValue(_, _)
RECURSIVE ParseElems(_, _, _)
ParseValue(toks, i) ==
    IF i > Len(toks) THEN ParseFail
    ELSE CASE toks[i].k = "atom" -> [ok |-> TRUE, v |-> toks[i].v, next |-> i + 1]
           [] toks[i].k = "["    ->
                IF i + 1 <= Len(toks) /\ toks[i + 1] = RB
                THEN [ok |-> TRUE, v |-> List(<<>>), next |-> i + 2]
                ELSE ParseElems(toks, i + 1, <<>>)
           [] toks[i].k = "{"    ->
                LET r == ParseValue(toks, i + 1)
                IN  IF r.ok /\ r.next <= Len(toks) /\ toks[r.next] = RC
                    THEN [ok |-> TRUE, v |-> Dict("items" :> r.v), next |-> r.next + 1]
                    ELSE ParseFail
           [] OTHER -> ParseFail

\* value ("," value)* "]" starting at token i, after the elements acc
ParseElems(toks, i, acc) ==
    LET r == ParseValue(toks, i)
    IN  IF ~r.ok \/ r.next > Len(toks) THEN ParseFail
        ELSE IF toks[r.next] = RB
             THEN [ok |-> TRUE, v |-> List(Append(acc, r.v)), next |-> r.next + 1]
        ELSE IF toks[r.next] = COMMA
             THEN ParseElems(toks, r.next + 1, Append(acc, r.v))
        ELSE ParseFail

\* json.loads(text): the whole text is one value, or it raises (ok = FALSE)
JsonLoads(toks) ==
    LET r == ParseValue(toks, 1)
    IN  IF r.ok /\ r.next = Len(toks) + 1 THEN r ELSE ParseFail

\* text.find('['), text.rfind(']'): 0 when there is none
FindFirst(toks, tok) ==
    IF \E i \in 1..Len(toks) : toks[i] = tok
    THEN CHOOSE i \in 1..Len(toks) : toks[i] = tok /\ \A j \in 1..(i - 1) : toks[j] # tok
    ELSE 0

FindLast(toks, tok) ==
    IF \E i \in 1..Len(toks) : toks[i] = tok
    THEN CHOOSE i \in 1..Len(toks) : toks[i] = tok /\ \A j \in (i + 1)..Len(toks) : toks[j] # tok
    ELSE 0

\* the list recovered from the model's text, and whether one was recovered;
\* the code returns the list alone, [] standing for "none recovered" as well
RecoverArray(text) ==
    LET direct == JsonLoads(text)
        start  == FindFirst(text, LB)
        end    == FindLast(text, RB)
        sub    == IF start # 0 /\ end # 0 /\ end > start
                  THEN JsonLoads(SubSeq(text, start, end)) ELSE ParseFail
    IN  IF direct.ok /\ direct.v.t = "list" THEN [found |-> TRUE, data |-> direct.v.l]
        ELSE IF sub.ok /\ sub.v.t = "list" THEN [found |-> TRUE, data |-> sub.v.l]
        ELSE [found |-> FALSE, data |-> <<>>]

_parse_model_output_to_json(text) == RecoverArray(text).data

\* NormalizeItem, but the context is always the action text
NormalizeItemContextFromAction(it, idx) ==
    LET action_text == IF it.t = "dict"
                       THEN Or(Or(Or(Get(it, "action"), Get(it, "action_text")),
                                  Get(it, "task")), PyStr(it))
                       ELSE PyStr(it)
    IN  Dict([id       |-> Num(idx),
              action   |-> action_text,
              owner    |-> IF it.t = "dict" /\ Truthy(Get(it, "owner")) THEN Get(it, "owner") ELSE None,
              deadline |-> IF it.t = "dict" /\ Truthy(Get(it, "deadline")) THEN Get(it, "deadline") ELSE None,
              context  |-> action_text])

\* NormalizeItem, but owner and deadline are taken as the item gives them
NormalizeItemKeepingFalsy(it, idx) ==
    LET action_text == IF it.t = "dict"
                       THEN Or(Or(Or(Get(it, "action"), Get(it, "action_text")),
                                  Get(it, "task")), PyStr(it))
                       ELSE PyStr(it)
    IN  Dict([id       |-> Num(idx),
              action   |-> action_text,
              owner    |-> IF it.t = "dict" THEN Get(it, "owner") ELSE None,
              deadline |-> IF it.t = "dict" THEN Get(it, "deadline") ELSE None,
              context  |-> IF it.t = "dict"
                           THEN Or(Or(Get(it, "context"), Get(it, "sentence")), action_text)
                           ELSE action_text])

\* one pass of the normalisation loop
NormalizeItem(it, idx) ==
    LET isDict      == it.t = "dict"
        action_text == IF isDict
                       THEN Or(Or(Or(Get(it, "action"), Get(it, "action_text")),
                                  Get(it, "task")), PyStr(it))
                       ELSE PyStr(it)
        owner       == IF isDict /\ Truthy(Get(it, "owner")) THEN Get(it, "owner") ELSE None
        deadline    == IF isDict /\ Truthy(Get(it, "deadline")) THEN Get(it, "deadline") ELSE None
        context     == IF isDict
                       THEN Or(Or(Get(it, "context"), Get(it, "sentence")), action_text)
                       ELSE action_text
    IN  Dict([id       |-> Num(idx),
              action   |-> action_text,
              owner    |-> owner,
              deadline |-> deadline,
              context  |-> context])

\* Normalize, but an id the item brings along is kept
NormalizeKeepingIds(items) ==
    [idx \in 1..Len(items) |->
        IF items[idx].t = "dict" /\ Truthy(Get(items[idx], "id"))
        THEN Dict([NormalizeItem(items[idx], idx).d EXCEPT !.id = Get(items[idx], "id")])
        ELSE NormalizeItem(items[idx], idx)]

\* "Normalize to required keys and ensure sequential ids"
Normalize(items) == [idx \in 1..Len(items) |-> NormalizeItem(items[idx], idx)]

(* What the generative backend does when it is used: pipeline() raises
   ("load_raises"), the generator raises ("invoke_raises"), or it returns
   the text raw ("text"). *)
BackendRaises(kind) == [kind |-> kind, raw |-> <<>>]

BackendReturns(raw) == [kind |-> "text", raw |-> raw]

\* extract_actions(transcript, use_model) with the backend behaving as
\* outcome: the returned list, whether the call raised, whether the backend
\* was loaded, and whether _regex_fallback produced the items
extract_actions(transcript_arg, use_model, outcome) ==
    LET transcript == Strip(transcript_arg)
        parsed     == _parse_model_output_to_json(outcome.raw)
        fellBack   == outcome.kind # "text" \/ ~Truthy(List(parsed))
        items      == IF fellBack THEN _regex_fallback(transcript) ELSE parsed
    IN  IF PLen(transcript) = 0
        THEN [result |-> <<>>, raised |-> FALSE, loaded |-> FALSE, fallback |-> FALSE]
        ELSE IF ~use_model
        THEN [result |-> _regex_fallback(transcript), raised |-> FALSE,
              loaded |-> FALSE, fallback |-> TRUE]
        ELSE [result |-> Normalize(items), raised |-> FALSE,
              loaded |-> TRUE, fallback |-> fellBack]

----------------------------------------------------------------------------
(* pipeline/summarize.py.  Texts are plain sequences of characters here. *)

\* the least i >= from with chars[i] in class, or Len(chars)+1
RECURSIVE FirstInside(_, _, _)
FirstInside(chars, from, class) ==
    IF from <= Len(chars) /\ chars[from] \notin class
    THEN FirstInside(chars, from + 1, class)
    ELSE from

\* str.split(): the maximal runs of non-whitespace characters
RECURSIVE SplitWords(_, _)
WordFrom(chars, i, e) == <<SubSeq(chars, i, e - 1)>> \o SplitWords(chars, e)

SplitWords(chars, i) ==
    IF i > Len(chars) THEN <<>>
    ELSE IF chars[i] \in Whitespace THEN SplitWords(chars, i + 1)
    ELSE WordFrom(chars, i, FirstInside(chars, i, Whitespace))

Words(chars) == SplitWords(chars, 1)

\* sep.join(parts)
RECURSIVE Join(_, _)
Join(parts, sep) ==
    IF parts = <<>> THEN <<>>
    ELSE IF Len(parts) = 1 THEN parts[1]
    ELSE parts[1] \o sep \o Join(Tail(parts), sep)

\* the windows words[i : i + max_words] for i = from, from + max_words, ...
RECURSIVE Windows(_, _, _)
Windows(words, from, max_words) ==
    IF from > Len(words) THEN <<>>
    ELSE <<Join(SubSeq(words, from, Min(from + max_words - 1, Len(words))), <<" ">>)>>
            \o Windows(words, from + max_words, max_words)

\* Windows, but a last window shorter than max_words is left out
RECURSIVE FullWindows(_, _, _)
FullWindows(words, from, max_words) ==
    IF from + max_words - 1 > Len(words) THEN <<>>
    ELSE <<Join(SubSeq(words, from, from + max_words - 1), <<" ">>)>>
            \o FullWindows(words, from + max_words, max_words)

\* _chunk_text, but the loop stops before a window that is not full
ChunkTextFullWindowsOnly(text, max_words) ==
    IF Len(Words(text)) <= max_words THEN <<text>>
    ELSE FullWindows(Words(text), 1, max_words)

_chunk_text(text, max_words) ==
    IF Len(Words(text)) <= max_words THEN <<text>>
    ELSE Windows(Words(text), 1, max_words)

\* re.sub(r'\s+\n', '\n', s): in every run of whitespace, what precedes its
\* last newline goes, if anything precedes it
LastNewline(chars, lo, hi) ==
    IF \E k \in lo..hi : chars[k] = "\n"
    THEN CHOOSE k \in lo..hi : chars[k] = "\n" /\ \A j \in (k + 1)..hi : chars[j] # "\n"
    ELSE 0

RECURSIVE DropSpaceBeforeNewline(_, _)
SpaceRun(chars, i, e, nl) ==
    IF nl > i
    THEN <<"\n">> \o SubSeq(chars, nl + 1, e) \o DropSpaceBeforeNewline(chars, e + 1)
    ELSE SubSeq(chars, i, e) \o DropSpaceBeforeNewline(chars, e + 1)

DropSpaceBeforeNewline(chars, i) ==
    IF i > Len(chars) THEN <<>>
    ELSE IF chars[i] \in Whitespace
         THEN SpaceRun(chars, i, RunEndIn(chars, i, Whitespace),
                       LastNewline(chars, i, RunEndIn(chars, i, Whitespace)))
         ELSE <<chars[i]>> \o DropSpaceBeforeNewline(chars, i + 1)

\* re.sub(r'\n{2,}', '\n\n', s)
RECURSIVE SqueezeNewlines(_, _)
NewlineRun(chars, i, e) ==
    (IF e > i THEN <<"\n", "\n">> ELSE <<"\n">>) \o SqueezeNewlines(chars, e + 1)

SqueezeNewlines(chars, i) ==
    IF i > Len(chars) THEN <<>>
    ELSE IF chars[i] = "\n" THEN NewlineRun(chars, i, RunEndIn(chars, i, {"\n"}))
    ELSE <<chars[i]>> \o SqueezeNewlines(chars, i + 1)

StripChars(chars) == Strip(Txt(chars)).s

_clean_summary(s) == StripChars(SqueezeNewlines(DropSpaceBeforeNewline(s, 1), 1))

\* " ".join(re.split(r'(?<=[.!?]) +', chunk)[:3])
FirstSentences(chunk) ==
    Join(SubSeq(SplitFrom(chunk, 1, 1), 1, Min(3, Len(SplitFrom(chunk, 1, 1)))), <<" ">>)

(* What the summarization backend does in one call of summarize_transcript:
   load ("ok" or "raises") is pipeline(); chunk[i] and final are the calls of
   the summarizer on chunk i and on the combined text, each either
   [kind |-> "raises"] or [kind |-> "text", text |-> ...]. *)
Raises == [kind |-> "raises", text |-> <<>>]

Returns(text) == [kind |-> "text", text |-> text]

\* the partial summary of one chunk
PartialSummary(chunk, outcome) ==
    StripChars(IF outcome.kind = "text" THEN outcome.text ELSE FirstSentences(chunk))

PartialSummaries(chunks, outcomes) ==
    [i \in 1..Len(chunks) |-> PartialSummary(chunks[i], outcomes[i])]

FinalText(combined, outcome) == IF outcome.kind = "text" THEN outcome.text ELSE combined

\* summarize_transcript, but only the empty transcript returns early
SummarizeStrippingNothing(transcript, max_chunk_words, orc) ==
    IF transcript = <<>>
    THEN [value |-> <<>>, raised |-> FALSE, loaded |-> FALSE]
    ELSE IF orc.load = "raises"
    THEN [value |-> <<>>, raised |-> TRUE, loaded |-> TRUE]
    ELSE [value  |-> _clean_summary(
                        FinalText(Join(PartialSummaries(_chunk_text(transcript, max_chunk_words),
                                                        orc.chunk), <<"\n", "\n">>),
                                  orc.final)),
          raised |-> FALSE, loaded |-> TRUE]

\* summarize_transcript(transcript, max_chunk_words) with the backend
\* behaving as orc: the returned text, whether the call raised instead, and
\* whether pipeline() was called
summarize_transcript(transcript, max_chunk_words, orc) ==
    IF StripChars(transcript) = <<>>
    THEN [value |-> <<>>, raised |-> FALSE, loaded |-> FALSE]
    ELSE IF orc.load = "raises"
    THEN [value |-> <<>>, raised |-> TRUE, loaded |-> TRUE]
    ELSE [value  |-> _clean_summary(
                        FinalText(Join(PartialSummaries(_chunk_text(transcript, max_chunk_words),
                                                        orc.chunk), <<"\n", "\n">>),
                                  orc.final)),
          raised |-> FALSE, loaded |-> TRUE]

----------------------------------------------------------------------------
(* pipeline/transcribe.py.  A model identifier is a sequence of characters;
   a transcription is [text, segments], each segment [start, end, text] with
   start and end in tenths of a second.

   What the speech backend does in one call is a record: load, what
   constructing the model does ("ok" or "raises") when the backend knows the
   name; run, what transcribing does; result, the dict openai-whisper's
   transcribe returns; segments, the segments faster-whisper yields. *)

FasterPrefix == <<"f","a","s","t","e","r","-">>

\* the model names openai-whisper is asked for by the application
WhisperModels == {<<"t","i","n","y",".","e","n">>, <<"b","a","s","e",".","e","n">>, <<"t","i","n","y">>, <<"b","a","s","e">>}

\* str.startswith
StartsWith(chars, prefix) ==
    Len(chars) >= Len(prefix) /\ SubSeq(chars, 1, Len(prefix)) = prefix

\* chars[from:].replace(old, ""), old not empty
RECURSIVE RemoveAllFrom(_, _, _)
RemoveAllFrom(chars, from, old) ==
    IF from > Len(chars) THEN <<>>
    ELSE IF StartsWith(SubSeq(chars, from, Len(chars)), old)
    THEN RemoveAllFrom(chars, from + Len(old), old)
    ELSE <<chars[from]>> \o RemoveAllFrom(chars, from + 1, old)

RemoveAll(chars, old) == RemoveAllFrom(chars, 1, old)

TrOk(backend, model_name, value) ==
    [status |-> "ok", backend |-> backend, model_name |-> model_name, value |-> value]

TrRaised(status, backend, model_name) ==
    [status |-> status, backend |-> backend, model_name |-> model_name,
     value |-> [text |-> <<>>, segments |-> <<>>]]

\* whisper.load_model(name) raises for a name it does not know
LoadModel(model_name, orc) == model_name \in WhisperModels /\ orc.load = "ok"

\* dict.get(key, default) on the backend's result
ResultGet(result, key, default) == IF key \in DOMAIN result THEN result[key] ELSE default

_run_whisper_python(model_name, WHISPER_AVAILABLE, orc) ==
    IF ~WHISPER_AVAILABLE THEN TrRaised("RuntimeError", "none", <<>>)
    ELSE IF ~LoadModel(model_name, orc) THEN TrRaised("BackendError", "whisper", model_name)
    ELSE IF orc.run = "raises" THEN TrRaised("BackendError", "whisper", model_name)
    ELSE TrOk("whisper", model_name,
              [text |-> ResultGet(orc.result, "text", <<>>),
               segments |-> ResultGet(orc.result, "segments", <<>>)])

SegmentTexts(segments) == [i \in 1..Len(segments) |-> segments[i].text]

_run_faster_whisper(model_name, FASTER_WHISPER_AVAILABLE, orc) ==
    IF ~FASTER_WHISPER_AVAILABLE THEN TrRaised("RuntimeError", "none", <<>>)
    ELSE IF ~LoadModel(model_name, orc) THEN TrRaised("BackendError", "faster", model_name)
    ELSE IF orc.run = "raises" THEN TrRaised("BackendError", "faster", model_name)
    ELSE TrOk("faster", model_name,
              [text |-> Join(SegmentTexts(orc.segments), <<" ">>), segments |-> orc.segments])

\* the except clause of transcribe_audio: any exception becomes RuntimeError
WrapRuntimeError(res) ==
    IF res.status = "ok" THEN res ELSE TrRaised("RuntimeError", res.backend, res.model_name)

\* transcribe_audio(path, model); env is [whisper |-> WHISPER_AVAILABLE,
\* faster |-> FASTER_WHISPER_AVAILABLE]
transcribe_audio(path_exists, model, env, orc) ==
    IF ~path_exists THEN TrRaised("FileNotFoundError", "none", <<>>)
    ELSE IF StartsWith(model, FasterPrefix) /\ env.faster
    THEN _run_faster_whisper(RemoveAll(model, FasterPrefix), env.faster, orc)
    ELSE WrapRuntimeError(_run_whisper_python(model, env.whisper, orc))

----------------------------------------------------------------------------
(* app.py: the Generate Minutes handler and the results area.  Session state
   is a function from the keys that are set to their values. *)

\* the decimal digits of n
RECURSIVE Decimal(_)
Decimal(n) ==
    LET D == <<"0","1","2","3","4","5","6","7","8","9">>
    IN  IF n < 10 THEN <<D[n + 1]>> ELSE Decimal(n \div 10) \o <<D[(n % 10) + 1]>>

\* f"{n:02d}"
TwoDigits(n) == IF n < 10 THEN <<"0">> \o Decimal(n) ELSE Decimal(n)

\* f"[{m:02d}:{s:02d}] {text.strip()}" with m, s = divmod(int(start), 60)
TimestampLine(seg) ==
    <<"[">> \o TwoDigits((seg.start \div 10) \div 60) \o <<":">>
        \o TwoDigits((seg.start \div 10) % 60) \o <<"]", " ">> \o StripChars(seg.text)

TimestampLines(segments) == [i \in 1..Len(segments) |-> TimestampLine(segments[i])]

\* the transcript the handler stores for a transcription; value.text and
\* value.segments are never None, so "or" leaves them as they are
TranscriptText(value, include_timestamps) ==
    IF include_timestamps /\ value.segments # <<>>
    THEN Join(TimestampLines(value.segments), <<"\n">>)
    ELSE value.text

\* chars[from:].split(sep), sep not empty; piece is the piece being read
RECURSIVE SplitOnFrom(_, _, _, _)
SplitOnFrom(chars, from, sep, piece) ==
    IF from > Len(chars) THEN <<piece>>
    ELSE IF StartsWith(SubSeq(chars, from, Len(chars)), sep)
    THEN <<piece>> \o SplitOnFrom(chars, from + Len(sep), sep, <<>>)
    ELSE SplitOnFrom(chars, from + 1, sep, Append(piece, chars[from]))

SplitOn(chars, sep) == SplitOnFrom(chars, 1, sep, <<>>)

EndsWith(chars, suffix) ==
    Len(chars) >= Len(suffix) /\ SubSeq(chars, Len(chars) - Len(suffix) + 1, Len(chars)) = suffix

\* ". ".join(sentences[:2]).strip()
ExecutiveHighlight(sentences) ==
    StripChars(Join(SubSeq(sentences, 1, Min(2, Len(sentences))), <<".", " ">>))

WithPeriod(chars) == IF EndsWith(chars, <<".">>) THEN chars ELSE chars \o <<".">>

MinutesTones == {"Concise", "Detailed", "Action", "Executive"}

\* the tone adjustment of the handler
ToneAdjusted(summary_text, minutes_tone) ==
    IF minutes_tone = "Concise" THEN summary_text
    ELSE IF minutes_tone = "Detailed"
    THEN summary_text \o <<"\n","\n","(","D","e","t","a","i","l","s",":"," ","S","e","e"," ","f","u","l","l"," ","t","r","a","n","s","c","r","i","p","t"," ","a","b","o","v","e",".",")">>
    ELSE IF minutes_tone = "Action"
    THEN <<"*","*","A","c","t","i","o","n","-","f","o","c","u","s","e","d"," ","m","i","n","u","t","e","s","*","*","\n","\n">> \o summary_text
    ELSE WithPeriod(ExecutiveHighlight(SplitOn(summary_text, <<".", " ">>)))

\* the minutes the handler stores
FinalSummary(summary_text, minutes_tone, custom_prefix) ==
    IF custom_prefix # <<>>
    THEN custom_prefix \o <<"\n", "\n">> \o ToneAdjusted(summary_text, minutes_tone)
    ELSE ToneAdjusted(summary_text, minutes_tone)

\* st.session_state.key = value
SessionSet(session, key, value) ==
    [k \in DOMAIN session \cup {key} |-> IF k = key THEN value ELSE session[k]]

\* the names of the two temporary files of a run
TmpIn(run) == <<"tmp_in", run>>

TmpOut(run) == <<"tmp_out", run>>

\* os.unlink(name); a failure of the removal is swallowed and not modelled
Unlink(files, name) == files \ {name}

----------------------------------------------------------------------------
(* Bounded inputs *)

\* all sequences over S of length at most n
SeqsUpTo(S, n) == UNION {[1..k -> S] : k \in 0..n}

RECURSIVE Flatten(_)
Flatten(ps) == IF ps = <<>> THEN <<>> ELSE Head(ps) \o Flatten(Tail(ps))

\* a transcript is made of at most MaxPieces pieces ...
MaxPieces == 3

\* ... followed by nothing or by LongPad copies of Filler
LongPad == 996

Pieces ==
    {<<"S","e","n","d">>, <<" ","b","y"," ","A","l">>, <<" ","w","i","l","l">>,
     <<"."," ">>, <<"\n">>, <<"o","k">>, <<" ">>}

ExampleTranscripts ==
    {Txt(<<"B","o","b"," ","w","i","l","l"," ","s","e","n","d"," ","t","h","e"," ","r","e","p","o","r","t"," ","b","y"," ","F","r","i","d","a","y","."," ","A","l","i","c","e"," ","p","l","e","a","s","e"," ","r","e","v","i","e","w"," ","t","h","e"," ","b","u","d","g","e","t",".">>),
     Txt(<<"H","e","l","l","o"," ","t","h","e","r","e",".">>),
     Txt(<<"S","e","n","d"," ","i","t"," ","b","y"," ","M","a","y"," ","2","0","2","4",".","\n","W","e"," ","m","e","t",".">>)}

Transcripts ==
    {[s |-> Flatten(ps), pad |-> pd] : ps \in SeqsUpTo(Pieces, MaxPieces), pd \in {0, LongPad}}
        \cup ExampleTranscripts

ShortText == Txt(<<"S","e","n","d"," ","r","e","p","o","r","t">>)

LongText == [s |-> <<>>, pad |-> ActionCap + 1]

\* the values a field of a model-written object may hold
FieldVals == {None, Num(0), Num(7), Str(EmptyStr), Str(ShortText), Str(LongText)}

FieldKeys == {"id", "action", "action_text", "task", "owner", "deadline", "context", "sentence"}

\* a model-written object has at most MaxKeys of the keys
MaxKeys == 1

ModelObjects ==
    {Dict(d) : d \in UNION {[K -> FieldVals] : K \in {K \in SUBSET FieldKeys : Cardinality(K) <= MaxKeys}}}

\* the object of the JSON-array recovery example, and one with every field
ExampleObject == Dict([action |-> Str(ShortText)])

FullObject ==
    Dict([id |-> Num(7), action |-> Str(ShortText), owner |-> Str(Txt(<<"B","o","b">>)),
          deadline |-> Str(Txt(<<"M","a","y">>)), context |-> Str(Txt(<<"c","t","x">>))])

ModelElems == FieldVals \cup ModelObjects \cup {ExampleObject, FullObject}

ElemSample == {Str(EmptyStr), Str(LongText), Num(7), ExampleObject, FullObject}

\* arrays of any one element, and of at most MaxElems sampled elements
MaxElems == 2

ModelArrays == {<<e>> : e \in ModelElems} \cup SeqsUpTo(ElemSample, MaxElems)

RECURSIVE ArrayTokens(_)
ArrayTokens(elems) ==
    IF elems = <<>> THEN <<>>
    ELSE <<Atom(Head(elems))>> \o (IF Len(elems) > 1 THEN <<COMMA>> ELSE <<>>)
            \o ArrayTokens(Tail(elems))

ArrayText(elems) == <<LB>> \o ArrayTokens(elems) \o <<RB>>

\* the model's text is any sequence of at most MaxRawLen of these tokens ...
MaxRawLen == 4

RawTokens == {LB, RB, COMMA, PROSE, Atom(ExampleObject)}

\* ... or an array: bare, wrapped in prose, held by an object, or twice
RawOutputs ==
    SeqsUpTo(RawTokens, MaxRawLen)
        \cup {ArrayText(a) : a \in ModelArrays}
        \cup {<<PROSE>> \o ArrayText(a) \o <<PROSE>> : a \in ModelArrays}
        \cup {<<LC>> \o ArrayText(a) \o <<RC>> : a \in ModelArrays}
        \cup {ArrayText(a) \o <<PROSE>> \o ArrayText(a) : a \in ModelArrays}

\* a text to chunk is made of at most MaxTextPieces of these pieces ...
MaxTextPieces == 5

TextPieces == {<<"a","."," ">>, <<"b">>, <<" ">>, <<"\n">>}

ChunkTexts == {Flatten(ps) : ps \in SeqsUpTo(TextPieces, MaxTextPieces)}

\* ... and a text to summarize of at most MaxSummarizedPieces
MaxSummarizedPieces == 3

SummarizedTexts == {Flatten(ps) : ps \in SeqsUpTo(TextPieces, MaxSummarizedPieces)}

\* ... and a transcript given to both the summarizer and the extractor of at
\* most MaxSharedPieces
MaxSharedPieces == 2

SharedTexts == {Flatten(ps) : ps \in SeqsUpTo(TextPieces, MaxSharedPieces)}

\* max_chunk_words is 1..MaxChunkWords
MaxChunkWords == 3

\* the texts the summarizer returns when it does not raise
SummaryTexts == {<<"S","u","m","."," ">>, <<"T",".","\n","\n","\n","U">>}

SummarizerOutcomes == {Raises} \cup {Returns(s) : s \in SummaryTexts}

\* everything the backend can do in a call that summarizes n chunks
SummarizerOracles(n) ==
    [load : {"ok", "raises"}, chunk : [1..n -> SummarizerOutcomes], final : SummarizerOutcomes]

\* a model identifier is a name with at most MaxPrefixes "faster-" before it
MaxPrefixes == 1

RECURSIVE Prefixed(_, _)
Prefixed(name, k) == IF k = 0 THEN name ELSE FasterPrefix \o Prefixed(name, k - 1)

\* a name no backend knows
UnknownModel == <<"h","u","g","e">>

ModelIds == {Prefixed(name, k) : name \in WhisperModels \cup {UnknownModel}, k \in 0..MaxPrefixes}

Envs == [whisper : BOOLEAN, faster : BOOLEAN]

ExampleSegments ==
    <<[start |-> 0, end |-> 615, text |-> <<" ","B","o","b"," ","w","i","l","l"," ","s","e","n","d"," ","i","t",".">>],
      [start |-> 615, end |-> 1259, text |-> <<" ","H","e","l","l","o"," ","t","h","e","r","e","."," ">>]>>

\* the dicts openai-whisper's transcribe returns
WhisperResults ==
    {[text |-> <<" ","B","o","b"," ","w","i","l","l"," ","s","e","n","d"," ","i","t","."," ","H","e","l","l","o"," ","t","h","e","r","e","."," ">>, segments |-> ExampleSegments],
     [text |-> <<"H","e","l","l","o"," ","t","h","e","r","e",".">>],
     [text |-> <<" ">>, segments |-> <<>>]}

SpeechOracles ==
    [load : {"ok", "raises"}, run : {"ok", "raises"}, result : WhisperResults,
     segments : {<<>>, ExampleSegments}]

\* a summary given to the tone adjustment is made of at most MaxTonePieces
\* of these pieces, or is the five-sentence example
MaxTonePieces == 4

TonePieces == {<<"A">>, <<"B">>, <<"."," ">>, <<".">>, <<" ">>}

ExampleSummary == <<"A","."," ","B","."," ","C","."," ","D","."," ","E",".">>

ToneSummaries ==
    {Flatten(ps) : ps \in SeqsUpTo(TonePieces, MaxTonePieces)} \cup {ExampleSummary}

\* the slider of the summary chunk size
ChunkSizeMin == 200

ChunkSizeMax == 1200

ChunkSizeStep == 100

ChunkSizes == {k \in ChunkSizeMin..ChunkSizeMax : (k - ChunkSizeMin) % ChunkSizeStep = 0}

CustomPrefixes == {<<>>, <<"M","i","n","u","t","e","s">>}

\* what the generative backend does in a Generate run
AppBackendOutcomes ==
    {BackendRaises("load_raises"), BackendReturns(<<LB, RB>>),
     BackendReturns(ArrayText(<<ExampleObject>>))}

\* what the user may type into the transcript area
EditedTexts == {<<>>, <<"A","l"," ","w","i","l","l"," ","c","a","l","l",".">>}

\* the Generate button is pressed at most MaxRuns times with a file
MaxRuns == 2

----------------------------------------------------------------------------
(* State *)

VARIABLES
    ea_pc,          \* "idle", or "returned" once the call below has returned
    ea_fn,          \* the function called: "extract_actions" or "_regex_fallback"
    ea_transcript,  \* its transcript argument
    ea_use_model,   \* its use_model argument
    ea_backend,     \* what the generative backend does in this call
    ea_out          \* [result, raised, loaded, fallback] of the call

eaVars == <<ea_pc, ea_fn, ea_transcript, ea_use_model, ea_backend, ea_out>>

VARIABLES
    sm_pc,          \* "idle", or "returned"
    sm_fn,          \* the function called: "summarize_transcript" or "_chunk_text"
    sm_transcript,  \* its text argument
    sm_max_words,   \* its max_chunk_words / max_words argument
    sm_orc,         \* what the summarization backend does in this call
    sm_chunks,      \* the chunks _chunk_text made
    sm_out          \* [value, raised, loaded] of summarize_transcript

smVars == <<sm_pc, sm_fn, sm_transcript, sm_max_words, sm_orc, sm_chunks, sm_out>>

VARIABLES
    tr_pc,          \* "idle", or "returned"
    tr_exists,      \* whether the path argument names an existing file
    tr_model,       \* the model argument
    tr_env,         \* [whisper, faster]: which backends were importable
    tr_orc,         \* what the speech backend does in this call
    tr_out          \* [status, backend, model_name, value] of transcribe_audio

trVars == <<tr_pc, tr_exists, tr_model, tr_env, tr_orc, tr_out>>

VARIABLES
    app_pc,         \* "idle", or the stage the running handler has completed
    app_run,        \* how many times Generate was pressed with a file
    app_env,        \* [whisper, faster]: which speech backends were importable
    app_files,      \* the temporary files that exist
    app_wav,        \* wav_path of the running handler, or "None"
    app_session,    \* st.session_state
    app_msg,        \* the last status message shown
    app_origin      \* history: for each key of the session, the run that set it

appVars ==
    <<app_pc, app_run, app_env, app_files, app_wav, app_session, app_msg, app_origin>>

VARIABLES
    tn_pc,          \* "idle", or "returned"
    tn_summary,     \* summary_text, what summarize_transcript returned
    tn_tone,        \* minutes_tone
    tn_prefix,      \* custom_prefix
    tn_out          \* final_summary

tnVars == <<tn_pc, tn_summary, tn_tone, tn_prefix, tn_out>>

vars == <<eaVars, smVars, trVars, appVars, tnVars>>

NoOut == [result |-> <<>>, raised |-> FALSE, loaded |-> FALSE, fallback |-> FALSE]

\* no call of the extractor is modelled
eaIdle ==
    /\ ea_pc = "off"
    /\ ea_fn = "none"
    /\ ea_transcript = EmptyStr
    /\ ea_use_model = FALSE
    /\ ea_backend = BackendRaises("load_raises")
    /\ ea_out = NoOut

\* the transcript of the call is drawn here; the call itself is one action
eaInit ==
    /\ ea_pc = "idle"
    /\ ea_fn = "none"
    /\ ea_transcript \in Transcripts
    /\ ea_use_model = FALSE
    /\ ea_backend = BackendRaises("load_raises")
    /\ ea_out = NoOut

NoOracle == [load |-> "ok", chunk |-> <<>>, final |-> Raises]

NoSummary == [value |-> <<>>, raised |-> FALSE, loaded |-> FALSE]

NoSpeech == [load |-> "raises", run |-> "raises", result |-> <<>>, segments |-> <<>>]

trIdle ==
    /\ tr_pc = "off"
    /\ tr_exists = FALSE
    /\ tr_model = <<>>
    /\ tr_env = [whisper |-> FALSE, faster |-> FALSE]
    /\ tr_orc = NoSpeech
    /\ tr_out = TrRaised("none", "none", <<>>)

\* the arguments of the call and the installation are drawn here
trInit ==
    /\ tr_pc = "idle"
    /\ tr_exists \in BOOLEAN
    /\ tr_model \in ModelIds
    /\ tr_env \in Envs
    /\ tr_orc = NoSpeech
    /\ tr_out = TrRaised("none", "none", <<>>)

tnIdle ==
    /\ tn_pc = "off"
    /\ tn_summary = <<>>
    /\ tn_tone = "Concise"
    /\ tn_prefix = <<>>
    /\ tn_out = <<>>

\* the summary and the two settings are drawn here
tnInit ==
    /\ tn_pc = "idle"
    /\ tn_summary \in ToneSummaries
    /\ tn_tone \in MinutesTones
    /\ tn_prefix \in CustomPrefixes
    /\ tn_out = <<>>

appIdle ==
    /\ app_pc = "off"
    /\ app_run = 0
    /\ app_env = [whisper |-> FALSE, faster |-> FALSE]
    /\ app_files = {}
    /\ app_wav = "None"
    /\ app_session = <<>>
    /\ app_msg = "none"
    /\ app_origin = <<>>

\* a fresh session: nothing stored, no temporary file
appInit ==
    /\ app_pc = "idle"
    /\ app_run = 0
    /\ app_env \in Envs
    /\ app_files = {}
    /\ app_wav = "None"
    /\ app_session = <<>>
    /\ app_msg = "none"
    /\ app_origin = <<>>

smIdle ==
    /\ sm_pc = "off"
    /\ sm_fn = "none"
    /\ sm_transcript = <<>>
    /\ sm_max_words = 1
    /\ sm_orc = NoOracle
    /\ sm_chunks = <<>>
    /\ sm_out = NoSummary

\* the text and the chunk size of the call are drawn here
smInit ==
    /\ sm_pc = "idle"
    /\ sm_fn = "none"
    /\ sm_transcript \in ChunkTexts
    /\ sm_max_words \in 1..MaxChunkWords
    /\ sm_orc = NoOracle
    /\ sm_chunks = <<>>
    /\ sm_out = NoSummary

----------------------------------------------------------------------------
(* Calls of the action extractor *)

ExtractCall(um, oc) ==
    /\ ea_pc = "idle"
    /\ ea_pc' = "returned"
    /\ ea_fn' = "extract_actions"
    /\ ea_use_model' = um
    /\ ea_backend' = oc
    /\ ea_out' = extract_actions(ea_transcript, um, oc)
    /\ UNCHANGED ea_transcript

\* extract_actions(transcript, use_model=False)
ExtractRegexOnly == ExtractCall(FALSE, BackendRaises("load_raises"))

\* extract_actions(transcript) when pipeline() or the generator raises
ExtractBackendRaises ==
    \E kind \in {"load_raises", "invoke_raises"} : ExtractCall(TRUE, BackendRaises(kind))

\* extract_actions(transcript) when the generator returns text
ExtractBackendReturns ==
    /\ ea_transcript \in ExampleTranscripts
    /\ \E raw \in RawOutputs : ExtractCall(TRUE, BackendReturns(raw))

\* _regex_fallback(transcript), called directly as under __main__
RegexFallbackCall ==
    /\ ea_pc = "idle"
    /\ ea_pc' = "returned"
    /\ ea_fn' = "_regex_fallback"
    /\ ea_use_model' = FALSE
    /\ ea_backend' = BackendRaises("load_raises")
    /\ ea_out' = [result |-> _regex_fallback(ea_transcript), raised |-> FALSE,
                  loaded |-> FALSE, fallback |-> TRUE]
    /\ UNCHANGED ea_transcript

NextExtract ==
    /\ \/ ExtractRegexOnly
       \/ ExtractBackendRaises
       \/ ExtractBackendReturns
       \/ RegexFallbackCall
    /\ UNCHANGED <<smVars, trVars, appVars, tnVars>>

InitExtract == eaInit /\ smIdle /\ trIdle /\ appIdle /\ tnIdle

SpecExtract == InitExtract /\ [][NextExtract]_vars

----------------------------------------------------------------------------
(* Calls of the summarizer *)

\* _chunk_text(text, max_words)
ChunkCall ==
    /\ sm_pc = "idle"
    /\ sm_pc' = "returned"
    /\ sm_fn' = "_chunk_text"
    /\ sm_chunks' = _chunk_text(sm_transcript, sm_max_words)
    /\ UNCHANGED <<sm_transcript, sm_max_words, sm_orc, sm_out>>

\* summarize_transcript(transcript, max_chunk_words)
SummarizeCall ==
    /\ sm_pc = "idle"
    /\ sm_transcript \in SummarizedTexts
    /\ \E orc \in SummarizerOracles(Len(_chunk_text(sm_transcript, sm_max_words))) :
          /\ sm_orc' = orc
          /\ sm_out' = summarize_transcript(sm_transcript, sm_max_words, orc)
    /\ sm_pc' = "returned"
    /\ sm_fn' = "summarize_transcript"
    /\ sm_chunks' = IF StripChars(sm_transcript) = <<>> THEN <<>>
                    ELSE _chunk_text(sm_transcript, sm_max_words)
    /\ UNCHANGED <<sm_transcript, sm_max_words>>

NextSummarize ==
    /\ \/ ChunkCall
       \/ SummarizeCall
    /\ UNCHANGED <<eaVars, trVars, appVars, tnVars>>

InitSummarize == smInit /\ eaIdle /\ trIdle /\ appIdle /\ tnIdle

SpecSummarize == InitSummarize /\ [][NextSummarize]_vars

----------------------------------------------------------------------------
(* One transcript given to the summarizer and to the extractor, in either
   order, as the Generate Minutes handler does *)

\* extract_actions(transcript) with a generative backend
ExtractWithBackend == \E oc \in AppBackendOutcomes : ExtractCall(TRUE, oc)

InitPipeline ==
    /\ smInit
    /\ sm_transcript \in SharedTexts
    /\ ea_pc = "idle"
    /\ ea_fn = "none"
    /\ ea_transcript = Txt(sm_transcript)
    /\ ea_use_model = FALSE
    /\ ea_backend = BackendRaises("load_raises")
    /\ ea_out = NoOut
    /\ trIdle
    /\ appIdle
    /\ tnIdle

NextPipeline ==
    \/ ExtractRegexOnly /\ UNCHANGED <<smVars, trVars, appVars, tnVars>>
    \/ ExtractWithBackend /\ UNCHANGED <<smVars, trVars, appVars, tnVars>>
    \/ SummarizeCall /\ UNCHANGED <<eaVars, trVars, appVars, tnVars>>

SpecPipeline == InitPipeline /\ [][NextPipeline]_vars

----------------------------------------------------------------------------
(* Calls of the transcriber *)

\* transcribe_audio(path, model)
TranscribeCall ==
    /\ tr_pc = "idle"
    /\ \E orc \in SpeechOracles :
          /\ tr_orc' = orc
          /\ tr_out' = transcribe_audio(tr_exists, tr_model, tr_env, orc)
    /\ tr_pc' = "returned"
    /\ UNCHANGED <<tr_exists, tr_model, tr_env>>

NextTranscribe ==
    /\ TranscribeCall
    /\ UNCHANGED <<eaVars, smVars, appVars, tnVars>>

InitTranscribe == trInit /\ eaIdle /\ smIdle /\ appIdle /\ tnIdle

SpecTranscribe == InitTranscribe /\ [][NextTranscribe]_vars

----------------------------------------------------------------------------
(* The Generate Minutes handler, stage by stage, and the results area *)

\* Generate pressed with no file uploaded
GenerateWithoutFile ==
    /\ app_pc = "idle"
    /\ app_msg' = "Please upload an audio file first."
    /\ UNCHANGED <<app_pc, app_run, app_env, app_files, app_wav, app_session, app_origin>>

\* the conversion stage raised after creating the files in created
ConversionFailed(created) ==
    /\ app_files' = app_files \cup created
    /\ app_wav' = "None"
    /\ app_msg' = "Audio conversion failed"
    /\ app_pc' = "idle"

\* Generate pressed with a file: the conversion stage
GenerateConvert ==
    /\ app_pc = "idle"
    /\ app_run < MaxRuns
    /\ app_run' = app_run + 1
    /\ \E conv \in {"ok", "from_file_raises", "export_raises"} :
          IF conv = "from_file_raises" THEN ConversionFailed({TmpIn(app_run')})
          ELSE IF conv = "export_raises" THEN ConversionFailed({TmpIn(app_run'), TmpOut(app_run')})
          ELSE /\ app_files' = Unlink(app_files \cup {TmpIn(app_run'), TmpOut(app_run')}, TmpIn(app_run'))
               /\ app_wav' = TmpOut(app_run')
               /\ app_msg' = "Loaded"
               /\ app_pc' = "converted"
    /\ UNCHANGED <<app_env, app_session, app_origin>>

\* a stage raised: the except and finally clauses of the processing block
ProcessingFailed ==
    /\ app_msg' = "Processing failed"
    /\ app_files' = Unlink(app_files, app_wav)
    /\ app_pc' = "idle"
    /\ UNCHANGED <<app_run, app_env, app_wav, app_session, app_origin>>

\* the transcription stage, res being what transcribe_audio did
TranscribeStage(res, include_timestamps) ==
    IF res.status # "ok" THEN ProcessingFailed
    ELSE /\ app_session' = SessionSet(app_session, "transcript",
                                      TranscriptText(res.value, include_timestamps))
         /\ app_origin' = SessionSet(app_origin, "transcript", app_run)
         /\ app_msg' = "Transcribed"
         /\ app_pc' = "transcribed"
         /\ UNCHANGED <<app_run, app_env, app_files, app_wav>>

Transcribe ==
    /\ app_pc = "converted"
    /\ \E model_choice \in WhisperModels, include_timestamps \in BOOLEAN, orc \in SpeechOracles :
          TranscribeStage(transcribe_audio(app_wav \in app_files, model_choice, app_env, orc),
                          include_timestamps)

\* the summarization stage, res being what summarize_transcript did
SummarizeStage(res, minutes_tone, custom_prefix) ==
    IF res.raised THEN ProcessingFailed
    ELSE /\ app_session' = SessionSet(app_session, "summary",
                                      FinalSummary(res.value, minutes_tone, custom_prefix))
         /\ app_origin' = SessionSet(app_origin, "summary", app_run)
         /\ app_msg' = "Summarized"
         /\ app_pc' = "summarized"
         /\ UNCHANGED <<app_run, app_env, app_files, app_wav>>

Summarize ==
    /\ app_pc = "transcribed"
    /\ \E max_chunk_words \in ChunkSizes, minutes_tone \in MinutesTones,
          custom_prefix \in CustomPrefixes :
        \E orc \in SummarizerOracles(Len(_chunk_text(app_session["transcript"], max_chunk_words))) :
          SummarizeStage(summarize_transcript(app_session["transcript"], max_chunk_words, orc),
                         minutes_tone, custom_prefix)

\* the extraction stage, res being what extract_actions did, and the finally
\* clause
ExtractStage(res) ==
    IF res.raised THEN ProcessingFailed
    ELSE /\ app_session' = SessionSet(app_session, "actions", res.result)
         /\ app_origin' = SessionSet(app_origin, "actions", app_run)
         /\ app_msg' = "Done"
         /\ app_files' = Unlink(app_files, app_wav)
         /\ app_pc' = "idle"
         /\ UNCHANGED <<app_run, app_env, app_wav>>

Extract ==
    /\ app_pc = "summarized"
    /\ \E use_model \in BOOLEAN, outcome \in AppBackendOutcomes :
          ExtractStage(extract_actions(Txt(app_session["transcript"]), use_model, outcome))

\* the transcript area of the results card: what the user typed is stored
EditTranscript ==
    /\ app_pc = "idle"
    /\ "transcript" \in DOMAIN app_session
    /\ app_session["transcript"] # <<>>
    /\ \E typed \in EditedTexts : app_session' = SessionSet(app_session, "transcript", typed)
    /\ UNCHANGED <<app_pc, app_run, app_env, app_files, app_wav, app_msg, app_origin>>

NextApp ==
    /\ \/ GenerateWithoutFile
       \/ GenerateConvert
       \/ Transcribe
       \/ Summarize
       \/ Extract
       \/ EditTranscript
    /\ UNCHANGED <<eaVars, smVars, trVars, tnVars>>

InitApp == appInit /\ eaIdle /\ smIdle /\ trIdle /\ tnIdle

SpecApp == InitApp /\ [][NextApp]_vars

----------------------------------------------------------------------------
(* The tone adjustment of the handler on its own *)

ToneCall ==
    /\ tn_pc = "idle"
    /\ tn_pc' = "returned"
    /\ tn_out' = FinalSummary(tn_summary, tn_tone, tn_prefix)
    /\ UNCHANGED <<tn_summary, tn_tone, tn_prefix>>

NextTone ==
    /\ ToneCall
    /\ UNCHANGED <<eaVars, smVars, trVars, appVars>>

InitTone == tnInit /\ eaIdle /\ smIdle /\ trIdle /\ appIdle

SpecTone == InitTone /\ [][NextTone]_vars

----------------------------------------------------------------------------
(* Properties of the action extractor, checked under SpecExtract *)

ExtractReturned == ea_pc = "returned" /\ ea_fn = "extract_actions"

Result == ea_out.result

\* the call reached the generative path: use_model and a non-empty transcript
GenerativeCall == ExtractReturned /\ ea_use_model /\ PLen(Strip(ea_transcript)) > 0

BackendRaised == ea_backend.kind \in {"load_raises", "invoke_raises"}

\* C1: the ids of the list extract_actions returns are 1, 2, ..., N in list
\* order, on every path and whatever ids the model's items carry.
C1_IdsContiguous ==
    ExtractReturned => \A i \in 1..Len(Result) : Result[i].d.id = Num(i)

\* a two-item array was recovered whose first item carries the id 7
C1_Witness ==
    /\ GenerativeCall
    /\ ~ea_out.fallback
    /\ Len(Result) = 2
    /\ RecoverArray(ea_backend.raw).data[1] = FullObject

\* C2: when the backend raises, for a non-empty transcript,
\* extract_actions(transcript, True) returns normally and returns what
\* extract_actions(transcript, False) returns.
C2_BackendFailureDegrades ==
    (GenerativeCall /\ BackendRaised) =>
        /\ ~ea_out.raised
        /\ Result = extract_actions(ea_transcript, FALSE, ea_backend).result

\* the backend raised and the fallback found a sentence longer than the cap,
\* whose action and context differ
C2_Witness ==
    /\ GenerativeCall
    /\ BackendRaised
    /\ \E i \in 1..Len(Result) : PLen(Result[i].d.context.s) > ActionCap

\* C3: with use_model, the deterministic extractor is used only when the
\* backend raises or no JSON array is recovered; a recovered array, the empty
\* one included, is normalized and returned.
C3_RecoveredArrayIsUsed ==
    GenerativeCall =>
        /\ ea_out.fallback <=> (BackendRaised \/ ~RecoverArray(ea_backend.raw).found)
        /\ (~BackendRaised /\ RecoverArray(ea_backend.raw).found)
              => Result = Normalize(RecoverArray(ea_backend.raw).data)

\* C4: normalizing the list the normalization step produced changes nothing.
C4_NormalizationIdempotent ==
    GenerativeCall => Normalize(Result) = Result

\* C5: every returned item's action is a string of at most 1000 characters.
C5_ActionBounded ==
    ExtractReturned =>
        \A i \in 1..Len(Result) :
            /\ Result[i].d.action.t \in {"str", "repr"}
            /\ PyLen(Result[i].d.action) <= ActionCap

\* the sentences of a transcript, stripped, in order
SentencesOf(transcript) ==
    LET parts == SplitSentences(ReplaceChar(transcript, "\n", " "))
    IN  [k \in 1..Len(parts) |-> Strip(parts[k])]

\* a sentence qualifies: it holds a keyword or starts with the imperative pattern
SentenceQualifies(text) == HasKeyword(LowerStr(text)) \/ VerbStart(text)

QualifyingSentences(transcript) == SelectSeq(SentencesOf(transcript), SentenceQualifies)

\* the first 1000 characters of a text
First1000(text) == Slice(text, 1, Min(PLen(text), 1000))

\* C10: _regex_fallback returns one item per qualifying sentence and none for
\* any other, in sentence order, with context the sentence and action its
\* first 1000 characters; so it is not empty when a sentence qualifies.
C10_OneItemPerQualifyingSentence ==
    (ea_pc = "returned" /\ ea_fn = "_regex_fallback") =>
        LET q == QualifyingSentences(ea_transcript)
        IN  /\ Len(Result) = Len(q)
            /\ \A i \in 1..Len(q) :
                  /\ Result[i].d.context = Str(q[i])
                  /\ Result[i].d.action = Str(First1000(q[i]))
            /\ (q # <<>> => Result # <<>>)

\* a sentence that does not qualify is followed by one that does and is
\* longer than the cap
C10_Witness ==
    /\ ea_pc = "returned"
    /\ ea_fn = "_regex_fallback"
    /\ Len(SentencesOf(ea_transcript)) = 2
    /\ PLen(SentencesOf(ea_transcript)[1]) > 0
    /\ ~SentenceQualifies(SentencesOf(ea_transcript)[1])
    /\ Len(Result) = 1
    /\ PLen(Result[1].d.context.s) > ActionCap
    /\ PLen(Result[1].d.action.s) = ActionCap

\* the field is absent from the object, or its value is falsy
AbsentOrFalsy(obj, key) == key \notin DOMAIN obj.d \/ ~Truthy(obj.d[key])

\* the array recovered from the text the backend returned
Recovered == RecoverArray(ea_backend.raw).data

\* C11: for every object of the recovered array, normalization sets owner
\* and deadline to null when the field is absent or falsy, and context to the
\* resolved action text when the object has neither context nor sentence;
\* the array [{action: "Send report"}] becomes [{id 1, action "Send report",
\* owner null, deadline null, context "Send report"}].
C11_NullsAndDefaultContext ==
    (GenerativeCall /\ ~ea_out.fallback) =>
        /\ Len(Result) = Len(Recovered)
        /\ \A i \in 1..Len(Recovered) :
              Recovered[i].t = "dict" =>
                  /\ AbsentOrFalsy(Recovered[i], "owner") => Result[i].d.owner = None
                  /\ AbsentOrFalsy(Recovered[i], "deadline") => Result[i].d.deadline = None
                  /\ ({"context", "sentence"} \cap DOMAIN Recovered[i].d = {})
                        => Result[i].d.context = Result[i].d.action
        /\ Recovered = <<ExampleObject>>
              => Result = <<Dict([id |-> Num(1), action |-> Str(ShortText), owner |-> None,
                                  deadline |-> None, context |-> Str(ShortText)])>>

\* the recovered array holds one object whose owner is the empty string
C11_Witness ==
    /\ GenerativeCall
    /\ ~ea_out.fallback
    /\ Len(Recovered) = 1
    /\ Recovered[1].t = "dict"
    /\ "owner" \in DOMAIN Recovered[1].d
    /\ Recovered[1].d.owner = Str(EmptyStr)
    /\ Result[1].d.owner = None
    /\ Result[1].d.context.t = "repr"

----------------------------------------------------------------------------
(* Properties of the summarizer, checked under SpecSummarize *)

SummarizeReturned == sm_pc = "returned" /\ sm_fn = "summarize_transcript"

\* C6: for a non-empty transcript, summarize_transcript returns a string and
\* does not raise, whichever backend step fails: pipeline(), the summarizer
\* on a chunk, or the summarizer on the combined text.
C6_SummarizeNeverRaises ==
    (sm_pc = "returned" /\ sm_fn = "summarize_transcript" /\ StripChars(sm_transcript) # <<>>)
        => ~sm_out.raised

\* the words of all chunks, in order
RECURSIVE ChunkWords(_)
ChunkWords(chunks) ==
    IF chunks = <<>> THEN <<>> ELSE Words(Head(chunks)) \o ChunkWords(Tail(chunks))

\* C7: for a text of L >= 1 words and K >= 1, _chunk_text returns ceil(L/K)
\* chunks, all but the last of exactly K words, the last of 1..K words, and
\* the chunks' words in order are the words of the text.
C7_ChunkingCorrect ==
    (sm_pc = "returned" /\ sm_fn = "_chunk_text" /\ Len(Words(sm_transcript)) >= 1) =>
        LET L == Len(Words(sm_transcript))
            K == sm_max_words
            n == Len(sm_chunks)
        IN  /\ n = (L + K - 1) \div K
            /\ \A i \in 1..(n - 1) : Len(Words(sm_chunks[i])) = K
            /\ Len(Words(sm_chunks[n])) \in 1..K
            /\ ChunkWords(sm_chunks) = Words(sm_transcript)

\* five words in windows of two: three chunks, the last of one word
C7_Witness ==
    /\ sm_pc = "returned"
    /\ sm_fn = "_chunk_text"
    /\ Len(Words(sm_transcript)) = 5
    /\ sm_max_words = 2
    /\ Len(sm_chunks) = 3
    /\ Len(Words(sm_chunks[3])) = 1

\* each partial summary post-processed on its own
CleanedEach(partials) == [i \in 1..Len(partials) |-> _clean_summary(partials[i])]

\* C14: when the final pass raises on a transcript of two or more chunks,
\* summarize_transcript returns the partial summaries in chunk order with a
\* blank line between each two of them; post-processing does not remove it.
C14_PartialsKeepBlankLine ==
    (SummarizeReturned /\ sm_out.loaded /\ ~sm_out.raised
        /\ sm_orc.final.kind = "raises" /\ Len(sm_chunks) >= 2)
        => sm_out.value = Join(CleanedEach(PartialSummaries(sm_chunks, sm_orc.chunk)),
                               <<"\n", "\n">>)

----------------------------------------------------------------------------
(* Properties of the transcriber, checked under SpecTranscribe *)

\* C8: when the model identifier starts with "faster-" and faster-whisper is
\* not available, the call succeeds whenever the same call without the prefix
\* succeeds, on the primary backend and with a model name it accepts.
C8_PrefixIgnoredTransparently ==
    (tr_pc = "returned" /\ StartsWith(tr_model, FasterPrefix) /\ ~tr_env.faster
        /\ transcribe_audio(tr_exists, RemoveAll(tr_model, FasterPrefix), tr_env, tr_orc).status = "ok")
        => /\ tr_out.status = "ok"
           /\ tr_out.backend = "whisper"
           /\ tr_out.model_name \in WhisperModels

----------------------------------------------------------------------------
(* Properties of the Generate Minutes handler, checked under SpecApp *)

\* C9: when a Generate run has ended, on whichever path, no temporary audio
\* file that a run created is left.
C9_TemporaryFilesRemoved ==
    app_pc = "idle" => app_files = {}

----------------------------------------------------------------------------
(* Properties of the two text stages, checked under SpecPipeline *)

\* every character of the text is whitespace; the empty text is blank
Blank(chars) == \A i \in 1..Len(chars) : chars[i] \in Whitespace

\* C12: on an empty or whitespace-only transcript summarize_transcript
\* returns "" and extract_actions returns [], with use_model true or false,
\* and neither has called pipeline() when it returns.
C12_BlankShortCircuits ==
    /\ (SummarizeReturned /\ Blank(sm_transcript))
          => (sm_out.value = <<>> /\ ~sm_out.raised /\ ~sm_out.loaded)
    /\ (ExtractReturned /\ ea_transcript.pad = 0 /\ Blank(ea_transcript.s))
          => (ea_out.result = <<>> /\ ~ea_out.raised /\ ~ea_out.loaded)

\* both stages have returned on a whitespace-only transcript, the extractor
\* with use_model, and both backends would have worked
C12_Witness ==
    /\ SummarizeReturned
    /\ ExtractReturned
    /\ sm_transcript # <<>>
    /\ Blank(sm_transcript)
    /\ ea_use_model
    /\ ea_backend.kind = "text"
    /\ sm_orc.load = "ok"
    /\ sm_orc.final.kind = "text"
    /\ sm_out.value = <<>>
    /\ ea_out.result = <<>>

----------------------------------------------------------------------------
(* Properties of the tone adjustment, checked under SpecTone *)

\* the first two pieces of the summary split on ". ", joined with ". ", the
\* whitespace at its ends aside
FirstTwoJoined(summary) ==
    LET pieces == SplitOn(summary, <<".", " ">>)
    IN  StripChars(IF Len(pieces) = 1 THEN pieces[1] ELSE pieces[1] \o <<".", " ">> \o pieces[2])

\* the text ends with one period and not with two
OneTrailingPeriod(chars) ==
    /\ Len(chars) >= 1
    /\ chars[Len(chars)] = "."
    /\ (Len(chars) >= 2 => chars[Len(chars) - 1] # ".")

\* C13: in Executive tone with no prefix the minutes are the first two
\* pieces of the summary split on ". ", joined with ". ", and end with
\* exactly one period, for every summary; "A. B. C. D. E." gives "A. B.".
C13_ExecutiveOneTrailingPeriod ==
    (tn_pc = "returned" /\ tn_tone = "Executive" /\ tn_prefix = <<>>) =>
        /\ tn_out \in {FirstTwoJoined(tn_summary), FirstTwoJoined(tn_summary) \o <<".">>}
        /\ OneTrailingPeriod(tn_out)
        /\ (tn_summary = ExampleSummary => tn_out = <<"A","."," ","B",".">>)

\* C15: when no run is in progress, the summary and the action items of the
\* session were set by the run that set its transcript, whatever runs came
\* before and wherever they failed.
C15_SessionFromOneRun ==
    app_pc = "idle" =>
        \A key \in {"summary", "actions"} \cap DOMAIN app_origin :
            /\ "transcript" \in DOMAIN app_origin
            /\ app_origin[key] = app_origin["transcript"]

====
